---------------------------- MODULE Spec2Model ----------------------------
(***************************************************************************)
(* A model of the two heap allocators of the malloc challenge and of the   *)
(* calls the benchmark driver makes on them.                               *)
(*                                                                         *)
(*   first_fit_malloc.c   singly linked free list, first sufficient slot   *)
(*   best_fit_malloc.c    size-keyed binary tree, smallest sufficient slot *)
(*   main.c               mmap_from_system, run_challenge's calls          *)
(*                                                                         *)
(* Memory is a function from the address of a metadata header to the       *)
(* header's fields.  Addresses and sizes are in bytes (LP64: pointers and  *)
(* size_t are 8 bytes, int is 4).                                          *)
(***************************************************************************)
EXTENDS Integers, Sequences, FiniteSets, TLC

(***************************************************************************)
(* Program constants                                                       *)
(***************************************************************************)
NULL == 0

\* size_t buffer_size = 4096;
PageSize == 4096

\* sizeof(first_fit_metadata_t): size_t size + pointer next
FirstFitHeaderSize == 16

\* sizeof(best_fit_metadata_t): size_t size + two pointers + int height, padded
BestFitHeaderSize == 32

\* |size| is guaranteed to be a multiple of 8 bytes and meets 8 <= |size| <= 4000
MinSize == 8
MaxSize == 4000
Alignment == 8

\* &first_fit_heap.dummy and &best_fit_tree.dummy: static storage, below every
\* page the system hands out
FirstFitDummy == 1032
BestFitDummy == 2056

(***************************************************************************)
(* Bounds of the model                                                     *)
(***************************************************************************)
\* pages the system can supply before mmap fails
MaxPages == 2
\* malloc calls the driver makes in one run of the process
MaxCalls == 3
\* challenges run one after the other
MaxChallenges == 2
\* run_challenge's workload, scaled down: epochs_per_cycle, cycles and the
\* objects allocated in a small and in a large (epoch 0) burst
EpochsPerCycle == 2
Cycles == 2
ObjectsPerEpochSmall == 1
ObjectsPerEpochLarge == 2
\* challenges run with these loops
MaxHarnessChallenges == 1
\* stores made into payloads from outside the harness
MaxStrayWrites == 1

\* the request sizes the driver draws, all within the contract
SampleSizes == {8, 24, 40, 4000}
Sizes == {s \in SampleSizes : MinSize <= s /\ s <= MaxSize /\ s % Alignment = 0}
\* a request larger than what one fresh page can hold, outside the contract
OversizeSizes == {4088}
\* the sizes run_challenge's loops draw from
HarnessSizes == {s \in Sizes : s <= MinSize}
\* the bytes a stray store writes
StrayBytes == {0, 255}

Strategies == {"first_fit", "best_fit"}

VARIABLES
  first_fit_heap,   \* [free_head, mem, abort]: the first-fit globals and headers
  best_fit_tree,    \* [free_head, mem, abort]: the best-fit globals and headers
  pages,            \* pages mapped by the process so far
  stats,            \* stats_t: mmap_size, munmap_size, allocated_size, freed_size
  active,           \* the strategy of the running challenge, or "none"
  challenges,       \* challenges started so far
  objects,          \* the driver's live objects: object_t [ptr, size, tag]
  tag,              \* run_challenge's rotating tag, a char
  calls,            \* malloc calls made so far
  last,             \* the last call made: its arguments and what it returned
  run,              \* run_challenge's locals: cycle, epoch, the loops'
                    \* indices, the vectors objects[0..epochs_per_cycle]
  memory            \* the first and the last byte of the payloads stamped

vars == <<first_fit_heap, best_fit_tree, pages, stats, active, challenges,
          objects, tag, calls, last, run, memory>>

(***************************************************************************)
(* Page provider                                                           *)
(***************************************************************************)
\* (mutant) the bytes are added to the wrong counter
mmap_counts_as_munmap(w, size) ==
  IF w.pages >= MaxPages
  THEN [ptr |-> NULL,
        w |-> [w EXCEPT !.heap.abort = "mmap_failed",
                        !.stats.munmap_size = @ + size]]
  ELSE [ptr |-> PageSize * (w.pages + 1),
        w |-> [w EXCEPT !.pages = @ + 1,
                        !.stats.munmap_size = @ + size]]

\* A call's working state: w.heap is the strategy's heap, w.pages and
\* w.stats the page provider's counters, w.depth the recursive calls made.
\* A malloc returns [w, ptr, remaining_size]: the state it leaves, the
\* pointer it returns and its local remaining_size.
\* w.heap.abort names what ended the process, "" while it runs.
\* mmap_from_system adds to stats.mmap_size and returns the next page-aligned
\* address.  When the system has no page left the process ends: mmap's
\* result is not an address the allocator can write its header to.
mmap_from_system(w, size) ==
  IF w.pages >= MaxPages
  THEN [ptr |-> NULL,
        w |-> [w EXCEPT !.heap.abort = "mmap_failed",
                        !.stats.mmap_size = @ + size]]
  ELSE [ptr |-> PageSize * (w.pages + 1),
        w |-> [w EXCEPT !.pages = @ + 1,
                        !.stats.mmap_size = @ + size]]

(***************************************************************************)
(* first_fit_malloc.c                                                      *)
(***************************************************************************)
\* (mutant) the slot is linked in behind the head of the list
first_fit_add_after_head(h, metadata) ==
  IF h.mem[metadata].next # NULL
  THEN [h EXCEPT !.abort = "assert"]
  ELSE IF h.free_head = NULL
  THEN [h EXCEPT !.free_head = metadata]
  ELSE [h EXCEPT !.mem[metadata].next = h.mem[h.free_head].next,
                 !.mem[h.free_head].next = metadata]

\* Add a free slot to the beginning of the free list.
first_fit_add_to_free_list(h, metadata) ==
  IF h.mem[metadata].next # NULL
  THEN [h EXCEPT !.abort = "assert"]                 \* assert(!metadata->next)
  ELSE [h EXCEPT !.mem[metadata].next = h.free_head,
                 !.free_head = metadata]

\* (mutant) the head of the list is not moved on when the first slot goes
first_fit_remove_keeps_head(h, metadata, prev) ==
  LET h1 == IF prev # NULL
            THEN [h EXCEPT !.mem[prev].next = h.mem[metadata].next]
            ELSE h
  IN  [h1 EXCEPT !.mem[metadata].next = NULL]

\* (mutant) the slot taken out keeps its link
first_fit_remove_keeps_next(h, metadata, prev) ==
  IF prev # NULL
  THEN [h EXCEPT !.mem[prev].next = h.mem[metadata].next]
  ELSE [h EXCEPT !.free_head = h.mem[metadata].next]

\* Remove a free slot from the free list.
first_fit_remove_from_free_list(h, metadata, prev) ==
  LET h1 == IF prev # NULL
            THEN [h EXCEPT !.mem[prev].next = h.mem[metadata].next]
            ELSE [h EXCEPT !.free_head = h.mem[metadata].next]
  IN  [h1 EXCEPT !.mem[metadata].next = NULL]

\* (mutant) the list is set up once and kept from then on
first_fit_initialize_once(h) ==
  IF h.free_head # NULL
  THEN h
  ELSE [h EXCEPT !.free_head = FirstFitDummy,
                 !.mem[FirstFitDummy] = [size |-> 0, next |-> NULL]]

first_fit_initialize(h) ==
  [h EXCEPT !.free_head = FirstFitDummy,
            !.mem[FirstFitDummy] = [size |-> 0, next |-> NULL]]

\* (mutant) no slot is ever passed over
first_fit_too_small_never(h, metadata, size) == FALSE

\* (mutant) a slot of exactly the requested size is passed over
first_fit_too_small_or_equal(h, metadata, size) ==
  h.mem[metadata].size <= size

\* metadata->size < size
first_fit_too_small(h, metadata, size) ==
  h.mem[metadata].size < size

\* while (metadata && metadata->size < size) { prev = metadata; ... }
RECURSIVE first_fit_scan(_, _, _, _)
first_fit_scan(h, metadata, prev, size) ==
  IF metadata # NULL /\ first_fit_too_small(h, metadata, size)
  THEN first_fit_scan(h, h.mem[metadata].next, metadata, size)
  ELSE [metadata |-> metadata, prev |-> prev]

\* (mutant) a remainder that holds a header and nothing more is split off
first_fit_splits_at_header_size(remaining_size) ==
  remaining_size >= FirstFitHeaderSize

\* remaining_size > sizeof(first_fit_metadata_t)
first_fit_splits(remaining_size) ==
  remaining_size > FirstFitHeaderSize

\* (first_fit_metadata_t *)((char *)ptr + size)
first_fit_new_metadata(ptr, size) == ptr + size

\* (mutant) the remainder's size still counts the bytes of its own header
first_fit_take_whole_remainder(h, metadata, prev, size) ==
  LET ptr == metadata + FirstFitHeaderSize
      remaining_size == h.mem[metadata].size - size
      h1 == first_fit_remove_from_free_list(h, metadata, prev)
  IN  IF first_fit_splits(remaining_size)
      THEN LET new_metadata == first_fit_new_metadata(ptr, size)
               h2 == [h1 EXCEPT !.mem[metadata].size = size]
               h3 == [h2 EXCEPT !.mem =
                        (new_metadata :>
                           [size |-> remaining_size, next |-> NULL]) @@ @]
           IN  [heap |-> first_fit_add_to_free_list(h3, new_metadata),
                ptr |-> ptr, remaining_size |-> remaining_size]
      ELSE [heap |-> h1, ptr |-> ptr, remaining_size |-> remaining_size]

\* The part of first_fit_malloc after a slot was found: unlink and split.
first_fit_take(h, metadata, prev, size) ==
  LET ptr == metadata + FirstFitHeaderSize
      remaining_size == h.mem[metadata].size - size
      h1 == first_fit_remove_from_free_list(h, metadata, prev)
  IN  IF first_fit_splits(remaining_size)
      THEN LET new_metadata == first_fit_new_metadata(ptr, size)
               h2 == [h1 EXCEPT !.mem[metadata].size = size]
               h3 == [h2 EXCEPT !.mem =
                        (new_metadata :>
                           [size |-> remaining_size - FirstFitHeaderSize,
                            next |-> NULL]) @@ @]
           IN  [heap |-> first_fit_add_to_free_list(h3, new_metadata),
                ptr |-> ptr, remaining_size |-> remaining_size]
      ELSE [heap |-> h1, ptr |-> ptr, remaining_size |-> remaining_size]

RECURSIVE first_fit_malloc(_, _)
first_fit_malloc(w, size) ==
  LET found == first_fit_scan(w.heap, w.heap.free_head, NULL, size)
  IN  IF found.metadata = NULL
      THEN LET m == mmap_from_system(w, PageSize)
               metadata == m.ptr
               h1 == [m.w.heap EXCEPT !.mem =
                        (metadata :>
                           [size |-> PageSize - FirstFitHeaderSize,
                            next |-> NULL]) @@ @]
               h2 == first_fit_add_to_free_list(h1, metadata)
           IN  IF m.w.heap.abort # ""
               THEN [w |-> m.w, ptr |-> NULL, remaining_size |-> 0]
               ELSE first_fit_malloc(
                      [m.w EXCEPT !.heap = h2, !.depth = @ + 1], size)
      ELSE LET t == first_fit_take(w.heap, found.metadata, found.prev, size)
           IN  [w |-> [w EXCEPT !.heap = t.heap], ptr |-> t.ptr,
                remaining_size |-> t.remaining_size]

\* (mutant) the freed slot's size is taken to include its header
first_fit_free_grows(h, ptr) ==
  LET metadata == ptr - FirstFitHeaderSize
  IN  first_fit_add_to_free_list(
        [h EXCEPT !.mem[metadata].size = @ + FirstFitHeaderSize], metadata)

first_fit_free(h, ptr) ==
  LET metadata == ptr - FirstFitHeaderSize
  IN  first_fit_add_to_free_list(h, metadata)

first_fit_finalize(h) == h

(***************************************************************************)
(* best_fit_malloc.c                                                       *)
(***************************************************************************)
\* int max(int a, int b): declared here, defined in common.c
max(a, b) == IF a >= b THEN a ELSE b

\* Recompute |tree|'s height from its children's stored heights and rotate
\* once when one side is more than one higher.  Returns the subtree's root.
best_fit_balance_tree(mem, tree) ==
  LET left_height == IF mem[tree].left # NULL
                     THEN mem[mem[tree].left].height ELSE 0
      right_height == IF mem[tree].right # NULL
                      THEN mem[mem[tree].right].height ELSE 0
      m1 == [mem EXCEPT ![tree].height = 1 + max(left_height, right_height)]
  IN  IF left_height + 1 < right_height
      THEN LET right == m1[tree].right
               right_left == m1[right].left
           IN  [root |-> right,
                mem |-> [m1 EXCEPT ![right].left = tree,
                                   ![tree].right = right_left]]
      ELSE IF right_height + 1 < left_height
      THEN LET left == m1[tree].left
               left_right == m1[left].right
           IN  [root |-> left,
                mem |-> [m1 EXCEPT ![left].right = tree,
                                   ![tree].left = left_right]]
      ELSE [root |-> tree, mem |-> m1]

\* (mutant) a slot goes left of the slots that are not larger than it
RECURSIVE best_fit_insert_recursive_flipped(_, _, _)
best_fit_insert_recursive_flipped(mem, metadata, tree) ==
  IF tree = NULL
  THEN [root |-> metadata, mem |-> mem]
  ELSE IF mem[metadata].size >= mem[tree].size
  THEN LET r == best_fit_insert_recursive_flipped(mem, metadata, mem[tree].left)
       IN  best_fit_balance_tree([r.mem EXCEPT ![tree].left = r.root], tree)
  ELSE LET r == best_fit_insert_recursive_flipped(mem, metadata, mem[tree].right)
       IN  best_fit_balance_tree([r.mem EXCEPT ![tree].right = r.root], tree)

RECURSIVE best_fit_insert_recursive(_, _, _)
best_fit_insert_recursive(mem, metadata, tree) ==
  IF tree = NULL
  THEN [root |-> metadata, mem |-> mem]
  ELSE IF mem[metadata].size < mem[tree].size
  THEN LET r == best_fit_insert_recursive(mem, metadata, mem[tree].left)
       IN  best_fit_balance_tree([r.mem EXCEPT ![tree].left = r.root], tree)
  ELSE LET r == best_fit_insert_recursive(mem, metadata, mem[tree].right)
       IN  best_fit_balance_tree([r.mem EXCEPT ![tree].right = r.root], tree)

\* while (root->left) root = root->left;
RECURSIVE best_fit_leftmost(_, _)
best_fit_leftmost(mem, root) ==
  IF mem[root].left # NULL THEN best_fit_leftmost(mem, mem[root].left) ELSE root

\* (mutant) the descent goes right at a slot of the same size
RECURSIVE best_fit_remove_recursive_right_on_equal(_, _, _)
best_fit_remove_recursive_right_on_equal(mem, metadata, tree) ==
  IF tree = NULL
  THEN [root |-> NULL, mem |-> mem, fault |-> TRUE]
  ELSE IF metadata = tree
  THEN IF mem[tree].left = NULL
       THEN [root |-> mem[tree].right, mem |-> mem, fault |-> FALSE]
       ELSE IF mem[tree].right = NULL
       THEN [root |-> mem[tree].left, mem |-> mem, fault |-> FALSE]
       ELSE LET root == best_fit_leftmost(mem, mem[tree].right)
                r == best_fit_remove_recursive_right_on_equal(
                       mem, root, mem[tree].right)
            IN  [root |-> root,
                 mem |-> [r.mem EXCEPT ![root].right = r.root,
                                       ![root].left = r.mem[tree].left],
                 fault |-> r.fault]
  ELSE IF mem[tree].size <= mem[metadata].size
  THEN LET r == best_fit_remove_recursive_right_on_equal(
                  mem, metadata, mem[tree].right)
           b == best_fit_balance_tree(
                  [r.mem EXCEPT ![tree].right = r.root], tree)
       IN  IF r.fault THEN r ELSE [root |-> b.root, mem |-> b.mem, fault |-> FALSE]
  ELSE LET r == best_fit_remove_recursive_right_on_equal(
                  mem, metadata, mem[tree].left)
           b == best_fit_balance_tree(
                  [r.mem EXCEPT ![tree].left = r.root], tree)
       IN  IF r.fault THEN r ELSE [root |-> b.root, mem |-> b.mem, fault |-> FALSE]

\* Returns the subtree's new root.  fault: the descent read tree->size with
\* tree == NULL.
RECURSIVE best_fit_remove_recursive(_, _, _)
best_fit_remove_recursive(mem, metadata, tree) ==
  IF tree = NULL
  THEN [root |-> NULL, mem |-> mem, fault |-> TRUE]
  ELSE IF metadata = tree
  THEN IF mem[tree].left = NULL
       THEN [root |-> mem[tree].right, mem |-> mem, fault |-> FALSE]
       ELSE IF mem[tree].right = NULL
       THEN [root |-> mem[tree].left, mem |-> mem, fault |-> FALSE]
       ELSE LET root == best_fit_leftmost(mem, mem[tree].right)
                r == best_fit_remove_recursive(mem, root, mem[tree].right)
            IN  [root |-> root,
                 mem |-> [r.mem EXCEPT ![root].right = r.root,
                                       ![root].left = r.mem[tree].left],
                 fault |-> r.fault]
  ELSE IF mem[tree].size < mem[metadata].size
  THEN LET r == best_fit_remove_recursive(mem, metadata, mem[tree].right)
           b == best_fit_balance_tree(
                  [r.mem EXCEPT ![tree].right = r.root], tree)
       IN  IF r.fault THEN r ELSE [root |-> b.root, mem |-> b.mem, fault |-> FALSE]
  ELSE LET r == best_fit_remove_recursive(mem, metadata, mem[tree].left)
           b == best_fit_balance_tree(
                  [r.mem EXCEPT ![tree].left = r.root], tree)
       IN  IF r.fault THEN r ELSE [root |-> b.root, mem |-> b.mem, fault |-> FALSE]

best_fit_insert_to_tree(t, metadata) ==
  LET r == best_fit_insert_recursive(t.mem, metadata, t.free_head)
  IN  [t EXCEPT !.free_head = r.root, !.mem = r.mem]

best_fit_remove_from_tree(t, metadata) ==
  LET r == best_fit_remove_recursive(t.mem, metadata, t.free_head)
  IN  IF r.fault
      THEN [t EXCEPT !.abort = "null_deref"]
      ELSE [t EXCEPT !.free_head = r.root, !.mem = r.mem]

best_fit_initialize(t) ==
  [t EXCEPT !.free_head = BestFitDummy,
            !.mem[BestFitDummy] =
               [size |-> 0, left |-> NULL, right |-> NULL, height |-> 1]]

\* (mutant) no slot counts as too small
best_fit_too_small_never(mem, metadata, size) == FALSE

\* (mutant) a slot of exactly the requested size counts as too small
best_fit_too_small_or_equal(mem, metadata, size) ==
  mem[metadata].size <= size

\* metadata->size < size
best_fit_too_small(mem, metadata, size) ==
  mem[metadata].size < size

\* (mutant) the descent stops at the first slot that is large enough
RECURSIVE best_fit_search_first(_, _, _, _)
best_fit_search_first(mem, metadata, best, size) ==
  IF metadata = NULL
  THEN best
  ELSE IF best_fit_too_small(mem, metadata, size)
  THEN best_fit_search_first(mem, mem[metadata].right, best, size)
  ELSE metadata

\* (mutant) the two branches of the descent are swapped
RECURSIVE best_fit_search_swapped(_, _, _, _)
best_fit_search_swapped(mem, metadata, best, size) ==
  IF metadata = NULL
  THEN best
  ELSE IF best_fit_too_small(mem, metadata, size)
  THEN best_fit_search_swapped(mem, mem[metadata].left, best, size)
  ELSE best_fit_search_swapped(mem, mem[metadata].right, metadata, size)

\* while (metadata) { if (metadata->size < size) go right; else remember, go left }
RECURSIVE best_fit_search(_, _, _, _)
best_fit_search(mem, metadata, best, size) ==
  IF metadata = NULL
  THEN best
  ELSE IF best_fit_too_small(mem, metadata, size)
  THEN best_fit_search(mem, mem[metadata].right, best, size)
  ELSE best_fit_search(mem, mem[metadata].left, metadata, size)

\* remaining_size > sizeof(best_fit_metadata_t)
best_fit_splits(remaining_size) ==
  remaining_size > BestFitHeaderSize

\* (mutant) the new header is placed |size| bytes after the old header
best_fit_new_metadata_from_header(ptr, size) == ptr - BestFitHeaderSize + size

\* (best_fit_metadata_t *)((char *)ptr + size)
best_fit_new_metadata(ptr, size) == ptr + size

\* The part of best_fit_malloc after a slot was found: remove and split.
best_fit_take(t, best, size) ==
  LET ptr == best + BestFitHeaderSize
      remaining_size == t.mem[best].size - size
      t1 == best_fit_remove_from_tree(t, best)
      t2 == [t1 EXCEPT !.mem[best].left = NULL,
                       !.mem[best].right = NULL,
                       !.mem[best].height = 1]
  IN  IF t1.abort # ""
      THEN [heap |-> t1, ptr |-> NULL, remaining_size |-> remaining_size]
      ELSE IF best_fit_splits(remaining_size)
      THEN LET new_metadata == best_fit_new_metadata(ptr, size)
               t3 == [t2 EXCEPT !.mem[best].size = size]
               t4 == [t3 EXCEPT !.mem =
                        (new_metadata :>
                           [size |-> remaining_size - BestFitHeaderSize,
                            left |-> NULL, right |-> NULL, height |-> 1]) @@ @]
           IN  [heap |-> best_fit_insert_to_tree(t4, new_metadata),
                ptr |-> ptr, remaining_size |-> remaining_size]
      ELSE [heap |-> t2, ptr |-> ptr, remaining_size |-> remaining_size]

RECURSIVE best_fit_malloc(_, _)
best_fit_malloc(w, size) ==
  LET best == best_fit_search(w.heap.mem, w.heap.free_head, NULL, size)
  IN  IF best = NULL
      THEN LET m == mmap_from_system(w, PageSize)
               metadata == m.ptr
               t1 == [m.w.heap EXCEPT !.mem =
                        (metadata :>
                           [size |-> PageSize - BestFitHeaderSize,
                            left |-> NULL, right |-> NULL, height |-> 1]) @@ @]
               t2 == best_fit_insert_to_tree(t1, metadata)
           IN  IF m.w.heap.abort # ""
               THEN [w |-> m.w, ptr |-> NULL, remaining_size |-> 0]
               ELSE best_fit_malloc(
                      [m.w EXCEPT !.heap = t2, !.depth = @ + 1], size)
      ELSE LET t == best_fit_take(w.heap, best, size)
           IN  [w |-> [w EXCEPT !.heap = t.heap], ptr |-> t.ptr,
                remaining_size |-> t.remaining_size]

best_fit_free(t, ptr) ==
  LET metadata == ptr - BestFitHeaderSize
  IN  best_fit_insert_to_tree(t, metadata)

best_fit_finalize(t) == t

(***************************************************************************)
(* main.c: the calls run_challenge makes                                   *)
(***************************************************************************)
Heap(s) == IF s = "first_fit" THEN first_fit_heap ELSE best_fit_tree
HeaderSize(s) == IF s = "first_fit" THEN FirstFitHeaderSize ELSE BestFitHeaderSize
Dummy(s) == IF s = "first_fit" THEN FirstFitDummy ELSE BestFitDummy

Aborted ==
  first_fit_heap.abort # "" \/ best_fit_tree.abort # "" \/ run.abort # ""

initialize_func(s, h) ==
  IF s = "first_fit" THEN first_fit_initialize(h) ELSE best_fit_initialize(h)

malloc_func(s, w, size) ==
  IF s = "first_fit" THEN first_fit_malloc(w, size) ELSE best_fit_malloc(w, size)

free_func(s, h, ptr) ==
  IF s = "first_fit" THEN first_fit_free(h, ptr) ELSE best_fit_free(h, ptr)

finalize_func(s, h) ==
  IF s = "first_fit" THEN first_fit_finalize(h) ELSE best_fit_finalize(h)

SetHeap(s, h) ==
  /\ first_fit_heap' = IF s = "first_fit" THEN h ELSE first_fit_heap
  /\ best_fit_tree' = IF s = "best_fit" THEN h ELSE best_fit_tree

NoCall == [op |-> "none", size |-> 0, ptr |-> NULL, mapped |-> 0, depth |-> 0,
           remaining_size |-> 0]

\* tag++; if (tag == 0) tag++;   (a char: 8 bits)
CharRange == 256
NextTag(t) ==
  LET t1 == (t + 1) % CharRange
  IN  IF t1 = 0 THEN (t1 + 1) % CharRange ELSE t1

\* vector_t, as the sequence of its objects
vector_create == <<>>
vector_push(vector, object) == Append(vector, object)
vector_size(vector) == Len(vector)
vector_at(vector, i) == vector[i + 1]

\* (mutant) the vector keeps its objects
vector_clear_keeps(vector) == vector

vector_clear(vector) == <<>>

\* run_challenge's locals before its loops: objects[i] = vector_create()
\* for i = 0..epochs_per_cycle, the last vector for the permanent objects.
\* j is the index of the release loop, stray the writes made into payloads
\* from outside the harness, abort what ended the process in the harness.
RunStart ==
  [cycle |-> 0, epoch |-> 0, i |-> 0, j |-> 0,
   objects |-> [e \in 0..EpochsPerCycle |-> vector_create],
   stray |-> 0, abort |-> ""]

Init ==
  /\ first_fit_heap =
       [free_head |-> NULL,
        mem |-> (FirstFitDummy :> [size |-> 0, next |-> NULL]),
        abort |-> ""]
  /\ best_fit_tree =
       [free_head |-> NULL,
        mem |-> (BestFitDummy :>
                   [size |-> 0, left |-> NULL, right |-> NULL, height |-> 0]),
        abort |-> ""]
  /\ pages = 0
  /\ stats = [mmap_size |-> 0, munmap_size |-> 0,
              allocated_size |-> 0, freed_size |-> 0]
  /\ active = "none"
  /\ challenges = 0
  /\ objects = {}
  /\ tag = 0
  /\ calls = 0
  /\ last = NoCall
  /\ run = RunStart
  /\ memory = <<>>

\* run_challenge up to its loop: initialize_func(), the statistics reset
Initialize(s) ==
  /\ ~Aborted
  /\ active = "none"
  /\ challenges < MaxChallenges
  /\ SetHeap(s, initialize_func(s, Heap(s)))
  /\ stats' = [mmap_size |-> 0, munmap_size |-> 0,
               allocated_size |-> 0, freed_size |-> 0]
  /\ active' = s
  /\ challenges' = challenges + 1
  /\ objects' = {}
  /\ tag' = 0
  /\ last' = [NoCall EXCEPT !.op = "initialize"]
  /\ run' = RunStart
  /\ UNCHANGED <<pages, calls, memory>>

\* One call of malloc_func from the allocation loop, with what the call did.
Call(size) ==
  malloc_func(active,
              [heap |-> Heap(active), pages |-> pages, stats |-> stats,
               depth |-> 0],
              size)

AllocateStep(size, r) ==
  /\ SetHeap(active, r.w.heap)
  /\ pages' = r.w.pages
  /\ stats' = [r.w.stats EXCEPT !.allocated_size = @ + size]
  /\ objects' = IF r.w.heap.abort = ""
                THEN objects \cup {[ptr |-> r.ptr, size |-> size, tag |-> tag]}
                ELSE objects
  /\ tag' = IF r.w.heap.abort = "" THEN NextTag(tag) ELSE tag
  /\ last' = [op |-> "malloc", size |-> size, ptr |-> r.ptr,
              mapped |-> r.w.pages - pages, depth |-> r.w.depth,
              remaining_size |-> r.remaining_size]
  /\ calls' = calls + 1
  /\ UNCHANGED <<active, challenges>>

\* stats.allocated_size += size; ptr = malloc_func(size).  The model leaves
\* out the calls that ask for a page when the system has none left as the
\* call starts.
Allocate(size) ==
  /\ ~Aborted
  /\ active # "none"
  /\ calls < MaxCalls
  /\ LET r == Call(size)
     IN  /\ pages < MaxPages \/ r.w.heap.abort # "mmap_failed"
         /\ AllocateStep(size, r)
  /\ UNCHANGED <<run, memory>>

\* stats.freed_size += object.size; free_func(object.ptr)
Release(object) ==
  /\ ~Aborted
  /\ active # "none"
  /\ object \in objects
  /\ SetHeap(active, free_func(active, Heap(active), object.ptr))
  /\ stats' = [stats EXCEPT !.freed_size = @ + object.size]
  /\ objects' = objects \ {object}
  /\ last' = [NoCall EXCEPT !.op = "free", !.size = object.size,
                            !.ptr = object.ptr]
  /\ UNCHANGED <<pages, active, challenges, tag, calls, run, memory>>

\* The end of run_challenge: the object vectors are destroyed, finalize_func()
Finalize ==
  /\ ~Aborted
  /\ active # "none"
  /\ SetHeap(active, finalize_func(active, Heap(active)))
  /\ active' = "none"
  /\ objects' = {}
  /\ last' = [NoCall EXCEPT !.op = "finalize"]
  /\ run' = [run EXCEPT !.objects = [e \in 0..EpochsPerCycle |-> <<>>]]
  /\ UNCHANGED <<pages, stats, challenges, tag, calls, memory>>

Next ==
  \/ \E s \in Strategies : Initialize(s)
  \/ \E size \in Sizes : Allocate(size)
  \/ \E object \in objects : Release(object)
  \/ Finalize

Spec == Init /\ [][Next]_vars

NextOversize ==
  \/ Next
  \/ \E size \in OversizeSizes : Allocate(size)

SpecOversize == Init /\ [][NextOversize]_vars

(***************************************************************************)
(* main.c: run_challenge's loops                                           *)
(***************************************************************************)
\* objects_per_epoch: the large burst in epoch 0, the small one otherwise
objects_per_epoch(epoch) ==
  IF epoch = 0 THEN ObjectsPerEpochLarge ELSE ObjectsPerEpochSmall

\* get_object_lifetime(1, epochs_per_cycle)
Lifetimes == 1..EpochsPerCycle

\* memset(ptr, tag, size), for the two bytes the harness reads back
memset(mem, ptr, t, size) == (ptr :> t) @@ (ptr + size - 1 :> t) @@ mem

\* (mutant) only the first byte is compared with the tag
tag_broken_first_byte(mem, object) ==
  mem[object.ptr] # object.tag

\* ((char *)object.ptr)[0] != object.tag ||
\* ((char *)object.ptr)[object.size - 1] != object.tag
tag_broken(mem, object) ==
  \/ mem[object.ptr] # object.tag
  \/ mem[object.ptr + object.size - 1] # object.tag

\* One pass of the allocation loop: draw a size and a lifetime, allocate,
\* stamp the payload, advance the tag and schedule the object.
HAllocate(size, lifetime, permanent) ==
  /\ ~Aborted
  /\ active # "none"
  /\ run.cycle < Cycles
  /\ run.i < objects_per_epoch(run.epoch)
  /\ \E r \in {Call(size)} :
       LET object == [ptr |-> r.ptr, size |-> size, tag |-> tag]
           to == IF permanent
                 THEN EpochsPerCycle
                 ELSE (run.epoch + lifetime) % EpochsPerCycle
       IN  /\ pages < MaxPages \/ r.w.heap.abort # "mmap_failed"
           /\ AllocateStep(size, r)
           /\ IF r.w.heap.abort = ""
              THEN /\ memory' = memset(memory, r.ptr, tag, size)
                   /\ run' = [run EXCEPT
                                !.i = @ + 1,
                                !.objects[to] = vector_push(@, object)]
              ELSE UNCHANGED <<run, memory>>

\* One pass of the release loop: count the bytes, check the tag, free.
HRelease ==
  /\ ~Aborted
  /\ active # "none"
  /\ run.cycle < Cycles
  /\ run.i = objects_per_epoch(run.epoch)
  /\ LET vector == run.objects[run.epoch]
     IN  /\ run.j < vector_size(vector)
         /\ LET object == vector_at(vector, run.j)
            IN  /\ stats' = [stats EXCEPT !.freed_size = @ + object.size]
                /\ IF tag_broken(memory, object)
                   THEN /\ run' = [run EXCEPT !.abort = "tag"]     \* assert(0)
                        /\ last' = [NoCall EXCEPT !.op = "assert",
                                                  !.size = object.size,
                                                  !.ptr = object.ptr]
                        /\ UNCHANGED <<first_fit_heap, best_fit_tree, objects>>
                   ELSE /\ SetHeap(active,
                                   free_func(active, Heap(active), object.ptr))
                        /\ objects' = objects \ {object}
                        /\ last' = [NoCall EXCEPT !.op = "free",
                                                  !.size = object.size,
                                                  !.ptr = object.ptr]
                        /\ run' = [run EXCEPT !.j = @ + 1]
  /\ UNCHANGED <<pages, active, challenges, tag, calls, memory>>

\* The release loop is over: vector_clear(vector), then the next epoch, or
\* the first epoch of the next cycle.
HEndEpoch ==
  /\ ~Aborted
  /\ active # "none"
  /\ run.cycle < Cycles
  /\ run.i = objects_per_epoch(run.epoch)
  /\ run.j = vector_size(run.objects[run.epoch])
  /\ run' = [run EXCEPT
               !.objects[run.epoch] = vector_clear(@),
               !.i = 0,
               !.j = 0,
               !.epoch = IF run.epoch + 1 < EpochsPerCycle THEN @ + 1 ELSE 0,
               !.cycle = IF run.epoch + 1 < EpochsPerCycle THEN @ ELSE @ + 1]
  /\ last' = NoCall
  /\ UNCHANGED <<first_fit_heap, best_fit_tree, pages, stats, active,
                 challenges, objects, tag, calls, memory>>

\* The loops are over: vector_destroy, finalize_func()
HFinalize ==
  /\ run.cycle = Cycles
  /\ Finalize

\* The start of run_challenge, for the challenges run with its loops.
HInitialize(s) ==
  /\ challenges < MaxHarnessChallenges
  /\ Initialize(s)

NextHarness ==
  \/ \E s \in Strategies : HInitialize(s)
  \/ \E size \in HarnessSizes, lifetime \in Lifetimes, permanent \in BOOLEAN :
       HAllocate(size, lifetime, permanent)
  \/ HRelease
  \/ HEndEpoch
  \/ HFinalize

SpecHarness == Init /\ [][NextHarness]_vars

\* The first and the last byte of the live objects' payloads.
BoundaryBytes == UNION {{o.ptr, o.ptr + o.size - 1} : o \in objects}

\* A store into the first or the last byte of a live payload that the
\* harness did not make: the strategy under test, or any code of the
\* process, writing where an object lives.
StrayWrite(a, v) ==
  /\ ~Aborted
  /\ active # "none"
  /\ run.stray < MaxStrayWrites
  /\ a \in BoundaryBytes
  /\ memory' = [memory EXCEPT ![a] = v]
  /\ run' = [run EXCEPT !.stray = @ + 1]
  /\ UNCHANGED <<first_fit_heap, best_fit_tree, pages, stats, active,
                 challenges, objects, tag, calls, last>>

NextCorrupt ==
  \/ NextHarness
  \/ \E a \in BoundaryBytes, v \in StrayBytes : StrayWrite(a, v)

SpecCorrupt == Init /\ [][NextCorrupt]_vars

(***************************************************************************)
(* What the properties speak of                                            *)
(***************************************************************************)
\* The headers of the first-fit free list from |metadata| on, in list order.
\* fuel ends the walk of a list that loops back on itself.
RECURSIVE FreeListFrom(_, _, _)
FreeListFrom(h, metadata, fuel) ==
  IF metadata = NULL \/ fuel = 0
  THEN <<>>
  ELSE <<metadata>> \o FreeListFrom(h, h.mem[metadata].next, fuel - 1)

\* The headers of the best-fit tree under |tree|, in order, left to right.
RECURSIVE InOrder(_, _, _)
InOrder(mem, tree, fuel) ==
  IF tree = NULL \/ fuel = 0
  THEN <<>>
  ELSE InOrder(mem, mem[tree].left, fuel - 1) \o <<tree>>
         \o InOrder(mem, mem[tree].right, fuel - 1)

\* Every header reachable from strategy s's free collection, the sentinel
\* included, as a sequence: a header reachable twice is listed twice.
Collection(s) ==
  IF s = "first_fit"
  THEN FreeListFrom(first_fit_heap, first_fit_heap.free_head,
                    Cardinality(DOMAIN first_fit_heap.mem) + 1)
  ELSE InOrder(best_fit_tree.mem, best_fit_tree.free_head,
               Cardinality(DOMAIN best_fit_tree.mem) + 1)

SeqRange(q) == {q[i] : i \in 1..Len(q)}

\* The free blocks of strategy s: the collection without the sentinel.
FreeBlocks(s) == SeqRange(Collection(s)) \ {Dummy(s)}

BlockSize(s, metadata) == Heap(s).mem[metadata].size

\* [metadata, end): the bytes of a block, header and payload
BlockEnd(s, metadata) == metadata + HeaderSize(s) + BlockSize(s, metadata)

Disjoint(a1, e1, a2, e2) == e1 <= a2 \/ e2 <= a1

HeaderOf(s, ptr) == ptr - HeaderSize(s)

Running == active # "none" /\ ~Aborted

(***************************************************************************)
(* C1  No two live allocations overlap: for every two objects the driver   *)
(* holds, the payload ranges [p1, p1+s1) and [p2, p2+s2) are disjoint.     *)
(***************************************************************************)
NoOverlap ==
  \A o1, o2 \in objects :
    o1 # o2 => Disjoint(o1.ptr, o1.ptr + o1.size, o2.ptr, o2.ptr + o2.size)

\* Two objects are live, the last one allocated after an object was freed.
NoOverlapWitness ==
  /\ Running
  /\ last.op = "malloc"
  /\ last.mapped = 0
  /\ Cardinality(objects) >= 2
  /\ stats.freed_size > 0

(***************************************************************************)
(* C2  Every free block of either strategy (header and payload) is         *)
(* disjoint from every other block of the collection and from every live   *)
(* block; no block is in the collection twice and no live block is in it.  *)
(***************************************************************************)
FreeCollectionDisjoint ==
  /\ \A s \in Strategies :
       LET q == Collection(s)
       IN  \A i, j \in 1..Len(q) :
             (i # j /\ q[i] # Dummy(s) /\ q[j] # Dummy(s))
               => Disjoint(q[i], BlockEnd(s, q[i]), q[j], BlockEnd(s, q[j]))
  /\ Running =>
       \A o \in objects : \A b \in FreeBlocks(active) :
         Disjoint(HeaderOf(active, o.ptr),
                  BlockEnd(active, HeaderOf(active, o.ptr)),
                  b, BlockEnd(active, b))

\* At least two free blocks next to a live one, after a release.
FreeCollectionDisjointWitness ==
  /\ Running
  /\ last.op = "free"
  /\ Cardinality(FreeBlocks(active)) >= 2
  /\ objects # {}

\* The least element of a non-empty set of numbers.
Least(S) == CHOOSE x \in S : \A y \in S : x <= y

\* The free blocks of the running strategy that can hold |size| bytes.
Sufficient(size) == {b \in FreeBlocks(active) : BlockSize(active, b) >= size}

\* This step is a malloc of the running strategy that returned a pointer.
MallocStep == Running /\ last'.op = "malloc" /\ last'.ptr # NULL

(***************************************************************************)
(* C3  Whenever the best-fit tree holds a free block that can hold the     *)
(* request, best_fit_malloc takes a block whose size is the least among    *)
(* the sizes of the free blocks that can hold it.                          *)
(***************************************************************************)
BestFitTakesSmallest ==
  [][(MallocStep /\ active = "best_fit" /\ Sufficient(last'.size) # {})
       => /\ HeaderOf(active, last'.ptr) \in Sufficient(last'.size)
          /\ BlockSize(active, HeaderOf(active, last'.ptr)) =
               Least({BlockSize(active, b) : b \in Sufficient(last'.size)})]_vars

\* A best-fit malloc took a block from the tree and left a larger free
\* block, other than the remainder it split off, behind.
BestFitTakesSmallestWitness ==
  /\ Running
  /\ active = "best_fit"
  /\ last.op = "malloc"
  /\ last.mapped = 0
  /\ \E b \in FreeBlocks(active) :
       /\ b # best_fit_new_metadata(last.ptr, last.size)
       /\ BlockSize(active, b) > last.size + last.remaining_size

(***************************************************************************)
(* C4  first_fit_malloc takes the block nearest the head of the free list  *)
(* that can hold the request, also when a smaller block that can hold it   *)
(* lies further down the list.                                             *)
(***************************************************************************)
FirstFitTakesFirst ==
  [][(MallocStep /\ active = "first_fit" /\ Sufficient(last'.size) # {})
       => LET q == Collection(active)
              i == Least({k \in 1..Len(q) : q[k] \in Sufficient(last'.size)})
          IN  HeaderOf(active, last'.ptr) = q[i]]_vars

\* A first-fit malloc took a block and left a smaller free block that could
\* have held the request behind.
FirstFitTakesFirstWitness ==
  /\ Running
  /\ active = "first_fit"
  /\ last.op = "malloc"
  /\ last.mapped = 0
  /\ \E b \in FreeBlocks(active) :
       /\ b # first_fit_new_metadata(last.ptr, last.size)
       /\ BlockSize(active, b) >= last.size
       /\ BlockSize(active, b) < last.size + last.remaining_size

\* The height of the subtree under |tree|, counted from the links.
RECURSIVE TrueHeight(_, _, _)
TrueHeight(mem, tree, fuel) ==
  IF tree = NULL \/ fuel = 0
  THEN 0
  ELSE 1 + max(TrueHeight(mem, mem[tree].left, fuel - 1),
               TrueHeight(mem, mem[tree].right, fuel - 1))

Abs(x) == IF x < 0 THEN -x ELSE x

(***************************************************************************)
(* C5  After every insert and remove, every node of the best-fit tree has  *)
(* subtrees whose heights differ by at most one.                           *)
(***************************************************************************)
AVLBalanced ==
  LET mem == best_fit_tree.mem
      fuel == Cardinality(DOMAIN mem) + 1
  IN  \A n \in SeqRange(Collection("best_fit")) :
        Abs(TrueHeight(mem, mem[n].left, fuel)
              - TrueHeight(mem, mem[n].right, fuel)) <= 1

(***************************************************************************)
(* C6  A malloc asks the system for a page only when no free block of the  *)
(* running strategy can hold the request; a malloc that follows the        *)
(* release of an object at least as large asks for none.                   *)
(***************************************************************************)
PageOnlyWhenNoneFits ==
  [][(Running /\ last'.op = "malloc")
       => /\ (pages' # pages => Sufficient(last'.size) = {})
          /\ (last.op = "free" /\ last'.size <= last.size) => pages' = pages]_vars

\* The second malloc of a challenge, after the first object was released,
\* for no more bytes than the first: it mapped no page.
PageOnlyWhenNoneFitsWitness ==
  /\ Running
  /\ last.op = "malloc"
  /\ last.mapped = 0
  /\ tag = 2
  /\ objects = {[ptr |-> last.ptr, size |-> last.size, tag |-> 1]}
  /\ stats.freed_size >= last.size

(***************************************************************************)
(* C7  A malloc of a size within the contract maps at most one page, calls *)
(* itself at most once and returns a pointer.                              *)
(***************************************************************************)
MallocMapsAtMostOnePage ==
  (last.op = "malloc" /\ last.size \in Sizes)
    => /\ last.mapped <= 1
       /\ last.depth <= 1
       /\ last.ptr # NULL
       /\ ~Aborted

\* A malloc of 4000 bytes found no block, mapped a page and returned.
MallocMapsAtMostOnePageWitness ==
  /\ Running
  /\ last.op = "malloc"
  /\ last.size = MaxSize
  /\ last.mapped = 1
  /\ last.depth = 1

(***************************************************************************)
(* C8  A malloc of more bytes than one fresh page can hold tries one fresh *)
(* page and stops: it maps at most one page and calls itself at most once. *)
(***************************************************************************)
OversizeMapsAtMostOnePage ==
  (last.op = "malloc" /\ last.size > PageSize - HeaderSize(active))
    => last.mapped <= 1 /\ last.depth <= 1

\* The size of the block a malloc took, read before the call: a free
\* block's size, or the size a fresh page is given.
TakenSize(s, metadata) ==
  IF metadata \in FreeBlocks(s)
  THEN BlockSize(s, metadata)
  ELSE PageSize - HeaderSize(s)

(***************************************************************************)
(* C9  Split rule.  When a block of size S is taken for a request R: if    *)
(* S - R > sizeof(header), the block's size becomes R and one free block   *)
(* of size S - R - sizeof(header), its header at payload + R, joins the    *)
(* collection; otherwise the block keeps size S and no block joins.  A     *)
(* live block is never more than sizeof(header) larger than its request.   *)
(***************************************************************************)
SplitRule ==
  [][/\ MallocStep =>
          LET s == active
              metadata == HeaderOf(s, last'.ptr)
              R == last'.size
              S == TakenSize(s, metadata)
              new_metadata == last'.ptr + R
              before == FreeBlocks(s)
              after == FreeBlocks(s)'
          IN  /\ S >= R
              /\ before \ after = before \cap {metadata}
              /\ IF S - R > HeaderSize(s)
                 THEN /\ Heap(s)'.mem[metadata].size = R
                      /\ after \ before = {new_metadata}
                      /\ Heap(s)'.mem[new_metadata].size = S - R - HeaderSize(s)
                 ELSE /\ Heap(s)'.mem[metadata].size = S
                      /\ after \ before = {}
     /\ Running' =>
          \A o \in objects' :
            LET size == Heap(active)'.mem[HeaderOf(active, o.ptr)].size
            IN  o.size <= size /\ size <= o.size + HeaderSize(active)]_vars

\* One live block was split off a larger one and is as large as its
\* request; another was handed out whole and is larger than its request.
SplitRuleWitness ==
  /\ Running
  /\ last.op = "malloc"
  /\ \E o1, o2 \in objects :
       /\ BlockSize(active, HeaderOf(active, o1.ptr)) = o1.size
       /\ o1.ptr + o1.size \in DOMAIN Heap(active).mem
       /\ BlockSize(active, HeaderOf(active, o2.ptr)) > o2.size

(***************************************************************************)
(* C10  A release adds the released block, and no other, to the free       *)
(* collection; it changes no block's address or size, merges nothing and   *)
(* maps or unmaps no page.  A live block keeps the size it was given.      *)
(***************************************************************************)
ReleaseFrame ==
  [][/\ (Running /\ last'.op = "free") =>
          LET s == active
              metadata == HeaderOf(s, last'.ptr)
          IN  /\ metadata \notin FreeBlocks(s)
              /\ FreeBlocks(s)' = FreeBlocks(s) \cup {metadata}
              /\ Len(Collection(s)') = Len(Collection(s)) + 1
              /\ DOMAIN Heap(s)'.mem = DOMAIN Heap(s).mem
              /\ \A a \in DOMAIN Heap(s).mem :
                   Heap(s)'.mem[a].size = Heap(s).mem[a].size
              /\ \A t \in Strategies \ {s} : Heap(t)' = Heap(t)
              /\ pages' = pages
              /\ stats'.mmap_size = stats.mmap_size
              /\ stats'.munmap_size = stats.munmap_size
     /\ (Running /\ Running') =>
          \A o \in objects \cap objects' :
            Heap(active)'.mem[HeaderOf(active, o.ptr)].size =
              Heap(active).mem[HeaderOf(active, o.ptr)].size]_vars

\* A block was released whose end is the header of a free block, while
\* another object is live.
ReleaseFrameWitness ==
  /\ Running
  /\ last.op = "free"
  /\ BlockEnd(active, HeaderOf(active, last.ptr)) \in FreeBlocks(active)
  /\ objects # {}

\* The address of the first page mapped in the running challenge: the
\* statistics are reset when a challenge starts, so stats.mmap_size counts
\* the challenge's own pages.
FirstPageOfChallenge == PageSize * (pages - stats.mmap_size \div PageSize + 1)

(***************************************************************************)
(* C11  initialize() leaves the strategy's free collection with the        *)
(* sentinel alone, whatever an earlier challenge left behind: the first    *)
(* malloc of a challenge maps a fresh page, and every block handed out or  *)
(* free in a challenge lies in a page mapped in that challenge.            *)
(***************************************************************************)
InitializeResets ==
  [][/\ last'.op = "initialize" =>
          /\ Collection(active)' = <<Dummy(active)'>>
          /\ BlockSize(active, Dummy(active))' = 0
     /\ (last.op = "initialize" /\ last'.op = "malloc") => last'.mapped = 1
     /\ Running' =>
          /\ \A o \in objects' : o.ptr >= FirstPageOfChallenge'
          /\ \A b \in FreeBlocks(active)' : b >= FirstPageOfChallenge']_vars

\* A malloc in a later challenge of a strategy whose earlier challenge left
\* blocks behind.
InitializeResetsWitness ==
  /\ Running
  /\ last.op = "malloc"
  /\ \E a \in DOMAIN Heap(active).mem :
       a >= PageSize /\ a < FirstPageOfChallenge

(***************************************************************************)
(* C12  No call of a running challenge gives a page back: the unmapped     *)
(* byte count stays 0 and the mapped byte count never falls and grows by   *)
(* 4096 bytes at a time.                                                   *)
(***************************************************************************)
PagesOnlyGrow ==
  [][Running =>
       /\ stats'.munmap_size = 0
       /\ stats'.mmap_size - stats.mmap_size \in {0, PageSize}
       /\ pages' >= pages]_vars

\* A challenge that mapped two pages and released an object has finished.
PagesOnlyGrowWitness ==
  /\ last.op = "finalize"
  /\ stats.mmap_size = 2 * PageSize
  /\ stats.freed_size > 0

\* The vector of the permanent objects, as a set.
Permanent(r) == SeqRange(r.objects[EpochsPerCycle])

\* The release loop has an object to look at: the allocation loop of the
\* epoch is over and the loop's index is inside the epoch's vector.
ReleasePending ==
  /\ Running
  /\ run.cycle < Cycles
  /\ run.i = objects_per_epoch(run.epoch)
  /\ run.j < vector_size(run.objects[run.epoch])

\* The object the release loop looks at next.
ReleaseNext == vector_at(run.objects[run.epoch], run.j)

\* The places [e, k] of the vectors where an object is scheduled.
Scheduled(r) ==
  {p \in (0..EpochsPerCycle) \X (1..(Cycles * EpochsPerCycle * ObjectsPerEpochLarge)) :
     p[2] <= Len(r.objects[p[1]])}

(***************************************************************************)
(* C13  The harness keeps the precondition of free: every pointer it       *)
(* frees belongs to an object that malloc returned in this challenge and   *)
(* that was not freed since, no object is freed twice (no object is        *)
(* scheduled at two places, and what is left of a vector after its release *)
(* phase is cleared), and a permanent object is never freed.               *)
(***************************************************************************)
ReleasePrecondition ==
  [][/\ (ReleasePending /\ last'.op = "free") =>
          /\ last'.ptr = ReleaseNext.ptr
          /\ ReleaseNext \in objects
          /\ ReleaseNext \notin Permanent(run)
          /\ ReleaseNext \notin objects'
     /\ Running' =>
          /\ Permanent(run') \subseteq objects'
          /\ \A p, q \in Scheduled(run') :
               run'.objects[p[1]][p[2]] = run'.objects[q[1]][q[2]] => p = q
          /\ \A e \in 0..(EpochsPerCycle - 1) :
               \A k \in 1..Len(run'.objects[e]) :
                 (e # run'.epoch \/ k > run'.j) =>
                   run'.objects[e][k] \in objects']_vars

\* The second release of a release phase in the second cycle, with an
\* object on the permanent vector.
ReleasePreconditionWitness ==
  /\ Running
  /\ last.op = "free"
  /\ run.cycle = 1
  /\ run.j = 2
  /\ Permanent(run) # {}

(***************************************************************************)
(* C14  Every object that is not permanent is released before the          *)
(* challenge finishes: when the loops are over, the objects still live are *)
(* the permanent ones.                                                     *)
(***************************************************************************)
AllReleasedAtFinish ==
  (Running /\ run.cycle = Cycles) => objects \subseteq Permanent(run)

(***************************************************************************)
(* C15  Corruption detection: when the first or the last byte of the       *)
(* payload of the object the release loop looks at differs from the        *)
(* object's tag, the harness aborts and free is not called: the heap and   *)
(* the free collection stay as they are.  An object whose two bytes are    *)
(* intact is freed.                                                        *)
(***************************************************************************)
CorruptionDetected ==
  [][(ReleasePending /\ run'.stray = run.stray) =>
       IF \/ memory[ReleaseNext.ptr] # ReleaseNext.tag
          \/ memory[ReleaseNext.ptr + ReleaseNext.size - 1] # ReleaseNext.tag
       THEN /\ run'.abort = "tag"
            /\ last'.op # "free"
            /\ first_fit_heap' = first_fit_heap
            /\ best_fit_tree' = best_fit_tree
            /\ objects' = objects
       ELSE /\ run'.abort = ""
            /\ last'.op = "free"
            /\ last'.ptr = ReleaseNext.ptr]_vars

\* The harness aborted on an object whose last byte a stray store changed
\* and whose first byte is intact.
CorruptionDetectedWitness ==
  /\ run.abort = "tag"
  /\ last.op = "assert"
  /\ \E o \in objects :
       /\ o.ptr = last.ptr
       /\ memory[o.ptr] = o.tag
       /\ memory[o.ptr + o.size - 1] # o.tag

(***************************************************************************)
(* C16  Once a page is mapped, the live requested bytes of a running       *)
(* challenge (allocated_size - freed_size) are strictly fewer than the     *)
(* bytes held from the page provider (mmap_size - munmap_size).            *)
(***************************************************************************)
UtilizationBelowOne ==
  (Running /\ stats.mmap_size > 0) =>
    stats.allocated_size - stats.freed_size
      < stats.mmap_size - stats.munmap_size

\* One page holds three live objects with 4032 requested bytes between them.
UtilizationBelowOneWitness ==
  /\ Running
  /\ stats.mmap_size = PageSize
  /\ stats.allocated_size - stats.freed_size >= 4032

(***************************************************************************)
(* C17  Every object of a challenge carries a non-zero tag, from the       *)
(* first object on.                                                        *)
(***************************************************************************)
TagsNonZero == \A o \in objects : o.tag # 0

\* tree->left ? tree->left->height : 0
StoredHeight(mem, tree) == IF tree # NULL THEN mem[tree].height ELSE 0

(***************************************************************************)
(* C18  After every best-fit malloc or free (each ends the inserts and     *)
(* removes it makes), every node of the tree stores the height             *)
(* 1 + max(height(left), height(right)) of its current children.           *)
(***************************************************************************)
StoredHeightsExact ==
  (active = "best_fit" /\ ~Aborted /\ last.op \in {"malloc", "free"}) =>
    LET mem == best_fit_tree.mem
    IN  \A n \in SeqRange(Collection("best_fit")) :
          mem[n].height = 1 + max(StoredHeight(mem, mem[n].left),
                                  StoredHeight(mem, mem[n].right))

\* The sum of sizeof(header) + size over a set of strategy s's headers.
RECURSIVE TotalBytes(_, _)
TotalBytes(s, S) ==
  IF S = {}
  THEN 0
  ELSE LET b == CHOOSE x \in S : TRUE
       IN  HeaderSize(s) + BlockSize(s, b) + TotalBytes(s, S \ {b})

LiveBlocks(s) == {HeaderOf(s, o.ptr) : o \in objects}

(***************************************************************************)
(* C19  No managed space is lost: the live blocks and the free blocks      *)
(* (sentinel apart) of the running strategy, headers included, add up to   *)
(* 4096 bytes for every page mapped since initialize.                      *)
(***************************************************************************)
BlocksTilePages ==
  Running =>
    /\ LiveBlocks(active) \cap FreeBlocks(active) = {}
    /\ TotalBytes(active, LiveBlocks(active) \cup FreeBlocks(active))
         = stats.mmap_size
    /\ stats.mmap_size = PageSize * (pages - FirstPageOfChallenge \div PageSize + 1)

\* Two pages, a live block that was handed out whole (larger than the
\* request), and a free block that came back by a release.
BlocksTilePagesWitness ==
  /\ Running
  /\ last.op = "free"
  /\ stats.mmap_size = 2 * PageSize
  /\ \E o \in objects : BlockSize(active, HeaderOf(active, o.ptr)) > o.size

\* One step of the first-fit list from |old| to |new|: at most one block is
\* new and it is the head; what stays keeps its order.
ListOrderStep(old, new) ==
  LET added == SeqRange(new) \ SeqRange(old)
      removed == SeqRange(old) \ SeqRange(new)
      Stays(x) == x \notin added
      Kept(x) == x \notin removed
  IN  /\ Cardinality(added) <= 1
      /\ added # {} => new[1] \in added
      /\ SelectSeq(new, Stays) = SelectSeq(old, Kept)

(***************************************************************************)
(* C20  The first-fit free list is most-recently-inserted first: a release *)
(* puts the block at the head before the unchanged old list; a malloc      *)
(* puts its split remainder (or what is left of a fresh page) at the head  *)
(* and leaves the blocks that stay in their old relative order.            *)
(***************************************************************************)
FreeListOrder ==
  [][(Running /\ active = "first_fit" /\ Running') =>
       /\ last'.op = "free" =>
            Collection("first_fit")'
              = <<HeaderOf("first_fit", last'.ptr)>> \o Collection("first_fit")
       /\ last'.op = "malloc" =>
            /\ ListOrderStep(Collection("first_fit"), Collection("first_fit")')
            /\ (last'.ptr # NULL
                  /\ first_fit_splits(last'.remaining_size)) =>
                 Collection("first_fit")'[1]
                   = first_fit_new_metadata(last'.ptr, last'.size)
            /\ HeaderOf("first_fit", last'.ptr)
                 \notin SeqRange(Collection("first_fit")')]_vars

\* A malloc passed over the head of the list, took the block behind it and
\* put the remainder before the block it passed over.
FreeListOrderWitness ==
  /\ Running
  /\ active = "first_fit"
  /\ last.op = "malloc"
  /\ first_fit_splits(last.remaining_size)
  /\ LET q == Collection("first_fit")
     IN  /\ Len(q) = 3
         /\ q[3] = FirstFitDummy
         /\ BlockSize("first_fit", q[2]) < last.size

\* The nodes of the best-fit tree, in order.
TreeNodes(t) == InOrder(t.mem, t.free_head, Cardinality(DOMAIN t.mem) + 1)

(***************************************************************************)
(* C21  The best-fit tree is a binary search tree on size in every         *)
(* reachable state: the sizes along its in-order traversal never fall.     *)
(***************************************************************************)
TreeOrdered ==
  LET q == TreeNodes(best_fit_tree)
  IN  \A i \in 1..(Len(q) - 1) :
        best_fit_tree.mem[q[i]].size <= best_fit_tree.mem[q[i + 1]].size

\* After the insert of a freed block the tree holds a node whose left child
\* has the node's own size: a rotation put equal sizes on the left, where
\* insert alone never puts them.
TreeOrderedWitness ==
  /\ Running
  /\ active = "best_fit"
  /\ last.op = "free"
  /\ \E n \in SeqRange(TreeNodes(best_fit_tree)) :
       LET mem == best_fit_tree.mem
       IN  /\ n # BestFitDummy
           /\ mem[n].left # NULL
           /\ mem[mem[n].left].size = mem[n].size

(***************************************************************************)
(* C22  best_fit_remove_recursive reaches the node best_fit_malloc         *)
(* chooses: for every reachable tree and every request, removing the       *)
(* chosen node never steps into an empty subtree, and the nodes reachable  *)
(* afterwards are the ones reachable before without the chosen node.  No   *)
(* best-fit call ends in a null dereference.                               *)
(***************************************************************************)
RemoveReachesChosen ==
  /\ best_fit_tree.abort # "null_deref"
  /\ best_fit_tree.abort = "" =>
       \A size \in Sizes :
         LET best == best_fit_search(best_fit_tree.mem,
                                     best_fit_tree.free_head, NULL, size)
             t == best_fit_remove_from_tree(best_fit_tree, best)
         IN  best # NULL =>
               /\ t.abort = ""
               /\ Len(TreeNodes(t)) = Len(TreeNodes(best_fit_tree)) - 1
               /\ SeqRange(TreeNodes(t))
                    = SeqRange(TreeNodes(best_fit_tree)) \ {best}

\* A malloc took one of several free blocks of the same size out of the
\* tree without mapping a page; another block of that size is still there.
RemoveReachesChosenWitness ==
  /\ Running
  /\ active = "best_fit"
  /\ last.op = "malloc"
  /\ last.ptr # NULL
  /\ last.mapped = 0
  /\ \E b \in FreeBlocks("best_fit") :
       BlockSize("best_fit", b)
         = BlockSize("best_fit", HeaderOf("best_fit", last.ptr))

(***************************************************************************)
(* C23  For requests of 8 bytes or more the size-0 sentinel of the running *)
(* strategy is never handed out and stays in the free collection, once,    *)
(* from initialize to finalize.  In first-fit it is the last element of    *)
(* the list: every other block of the list has a non-null next link.       *)
(***************************************************************************)
SentinelStays ==
  Running =>
    LET q == Collection(active)
    IN  /\ Cardinality({i \in 1..Len(q) : q[i] = Dummy(active)}) = 1
        /\ BlockSize(active, Dummy(active)) = 0
        /\ \A o \in objects : HeaderOf(active, o.ptr) # Dummy(active)
        /\ last.op = "malloc" => HeaderOf(active, last.ptr) # Dummy(active)
        /\ active = "first_fit" =>
             /\ q[Len(q)] = FirstFitDummy
             /\ first_fit_heap.mem[FirstFitDummy].next = NULL
             /\ \A i \in 1..(Len(q) - 1) :
                  first_fit_heap.mem[q[i]].next # NULL

\* A malloc found a block in a collection of three or more that had taken
\* back a released block: the scan went past or stopped before the sentinel.
SentinelStaysWitness ==
  /\ Running
  /\ last.op = "malloc"
  /\ last.ptr # NULL
  /\ last.mapped = 0
  /\ stats.freed_size > 0
  /\ Len(Collection(active)) >= 3

(***************************************************************************)
(* C24  In first-fit every block of the running challenge that is not in   *)
(* the free list has next == NULL, and no call ends in the failure of      *)
(* assert(!metadata->next) in first_fit_add_to_free_list.                  *)
(***************************************************************************)
NextNullOutsideList ==
  /\ first_fit_heap.abort # "assert"
  /\ (Running /\ active = "first_fit") =>
       /\ \A o \in objects :
            first_fit_heap.mem[HeaderOf("first_fit", o.ptr)].next = NULL
       /\ \A a \in DOMAIN first_fit_heap.mem :
            (a >= FirstPageOfChallenge
               /\ a \notin SeqRange(Collection("first_fit")))
              => first_fit_heap.mem[a].next = NULL

\* A release put a block back while another block, taken from a list of
\* several blocks, is still live.
NextNullOutsideListWitness ==
  /\ Running
  /\ active = "first_fit"
  /\ last.op = "free"
  /\ objects # {}
  /\ Len(Collection("first_fit")) >= 3

=============================================================================
